---- MODULE Spec2Model ----
(***************************************************************************)
(* Model of src/src/memory.rs: the four request handlers of the session    *)
(* memory service (get_memory, post_memory, delete_memory,                 *)
(* delete_last_messages), the session_cleanup registry behind its mutex    *)
(* and the compaction task post_memory spawns.                             *)
(*                                                                         *)
(* The store is a list and a context string per session. Every store       *)
(* command a handler awaits is one step, so that handlers and tasks        *)
(* interleave between commands exactly where the code can be suspended.    *)
(* A stored line is a sequence of one-character strings, so that encoding  *)
(* and splitting on ": " are computed, not assumed.                        *)
(***************************************************************************)
EXTENDS Integers, Sequences, FiniteSets, TLC

VARIABLES
    probe,            \* the message whose way through the codec is followed
    window_size,      \* AppState.window_size (configuration, fixed at start)
    list,             \* store: session id -> list of lines, newest first
    context,          \* store: session id -> value of "<id>_context" or None
    session_cleanup,  \* AppState.session_cleanup: the map inside the mutex
    lock,             \* holder of the session_cleanup mutex, or None
    req,              \* per request worker: the handler it runs and where
    tasks,            \* spawned compaction tasks: session -> position -> count
    started,          \* per session: compaction tasks spawned so far
    raised,           \* per session: absent/false -> true transitions so far
    prevDl,           \* per session: the DeleteLast that last changed the list
    seqSingle,        \* per session: only sequential 1-message Appends so far
    opsLeft           \* requests that may still arrive

vars == <<probe, window_size, list, context, session_cleanup, lock, req, tasks,
          started, raised, prevDl, seqSingle, opsLeft>>

-----------------------------------------------------------------------------
(* Bounds of the model *)

MaxOps == 4

\* the configurations checked: the smallest window and the window of the
\* spec's concrete scenario
WindowSizes == {1, 3}

Sessions == {"A", "B"}
Procs == {"p1", "p2"}
None == "None"

-----------------------------------------------------------------------------
(* Message codec: format!("{}: {}", role, content) and splitn(2, ": ") *)

Delim == <<":", " ">>

Msg(role, content) == [role |-> role, content |-> content]

Encode(m) == m.role \o Delim \o m.content

\* the positions at which ": " occurs in line
DelimAt(line) ==
    {i \in 1..(Len(line) - 1) : line[i] = ":" /\ line[i + 1] = " "}

HasDelim(line) == DelimAt(line) # {}

FirstDelim(line) == CHOOSE i \in DelimAt(line) : \A j \in DelimAt(line) : i <= j

\* as Splitn2, but splitting at the last delimiter (rsplitn)
Splitn2_Last(line) ==
    IF HasDelim(line)
    THEN LET k == CHOOSE i \in DelimAt(line) : \A j \in DelimAt(line) : i >= j
         IN  <<SubSeq(line, 1, k - 1), SubSeq(line, k + 2, Len(line))>>
    ELSE <<line>>

\* message.splitn(2, ": "): one part when there is no delimiter, else two
Splitn2(line) ==
    IF HasDelim(line)
    THEN <<SubSeq(line, 1, FirstDelim(line) - 1),
           SubSeq(line, FirstDelim(line) + 2, Len(line))>>
    ELSE <<line>>

\* as Decode, but a line with one part is kept, as a message without a role
Decode_KeepsRaw(line) ==
    LET parts == Splitn2(line)
    IN  IF Len(parts) = 2 THEN <<Msg(parts[1], parts[2])>> ELSE <<Msg(<<>>, line)>>

\* the filter_map closure of get_memory, an Option as a sequence of at most
\* one message: <<>> (None) for a line with one part
Decode(line) ==
    LET parts == Splitn2(line)
    IN  IF Len(parts) = 2 THEN <<Msg(parts[1], parts[2])>> ELSE <<>>

\* parts.nth(1).unwrap_or("") of delete_last_messages
ContentOrEmpty(line) ==
    LET parts == Splitn2(line)
    IN  IF Len(parts) = 2 THEN parts[2] ELSE <<>>

RECURSIVE FilterMapDecode(_)
FilterMapDecode(lines) ==
    IF lines = <<>> THEN <<>>
    ELSE Decode(Head(lines)) \o FilterMapDecode(Tail(lines))

RECURSIVE MapEncode(_)
MapEncode(ms) ==
    IF ms = <<>> THEN <<>> ELSE <<Encode(Head(ms))>> \o MapEncode(Tail(ms))

-----------------------------------------------------------------------------
(* Store commands, with the store's index rules (0-based, inclusive stop,  *)
(* negative indices counted from the end)                                  *)

NormIdx(i, n) == IF i < 0 THEN n + i ELSE i

LRange(l, start, stop) ==
    LET n == Len(l)
        s0 == NormIdx(start, n)
        s == IF s0 < 0 THEN 0 ELSE s0
        e0 == NormIdx(stop, n)
        e == IF e0 >= n THEN n - 1 ELSE e0
    IN  IF s > e \/ s >= n THEN <<>> ELSE SubSeq(l, s + 1, e + 1)

\* as LTrim, but keeping as many entries from the head of the list as LTrim
\* keeps from the range
LTrim_KeepsHead(l, start, stop) ==
    SubSeq(l, 1, Len(LRange(l, start, stop)))

\* LTRIM keeps exactly the range LRANGE would return
LTrim(l, start, stop) == LRange(l, start, stop)

RECURSIVE Reverse(_)
Reverse(s) == IF s = <<>> THEN <<>> ELSE Reverse(Tail(s)) \o <<Head(s)>>

\* as LPush, but the values are put at the head in the order given
LPush_InOrder(l, values) == values \o l

\* LPUSH key v1 .. vn: each value in turn goes to the head
LPush(l, values) == Reverse(values) \o l

-----------------------------------------------------------------------------
(* Inputs *)

Role == <<"u">>

\* request bodies of post_memory: MemoryMessages.messages, in client order
PairBatch == <<Msg(Role, <<"x">>), Msg(Role, <<"y">>)>>
Batches == {<<Msg(Role, <<"x">>)>>, <<Msg(Role, <<"z">>)>>, PairBatch}

\* request bodies of delete_last_messages: DeleteLastRequest.count, .message_text
Counts == {1, 2}
Texts == {<<"x">>, <<"y">>}

\* the requests clients send: every kind on session "A", and on session "B"
\* the Appends of the two-message batch
PostInputs == ({"A"} \X Batches) \cup {<<"B", PairBatch>>}
GetInputs == {"A"}
DeleteInputs == {"A"}
DeleteLastInputs == {"A"} \X Counts \X Texts

Summary == "summary"
StatusOk == "Ok"
StatusMismatch == "Failed: Message text mismatch"
\* the answer of a handler whose store command failed (ErrorInternalServerError)
StatusInternalError == "InternalServerError"

-----------------------------------------------------------------------------
(* State *)

Free == <<"free", "">>
ReqHolder(p) == <<"req", p>>
TaskHolder(s) == <<"task", s>>

\* fresh is a history field of a DeleteLast between its verification read and
\* its LTRIM: how many entries at the head of the list were pushed since the
\* read
NoReq ==
    [op |-> "none", sid |-> "", pc |-> "idle", count |-> 0, text |-> <<>>,
     status |-> "", messages |-> <<>>, ctx |-> None, fresh |-> 0]

\* the requests rq after handler p has pushed n entries on session s
AfterPush(rq, p, s, n) ==
    [q \in Procs |->
        IF q # p /\ rq[q].pc \in {"log", "ltrim"} /\ rq[q].sid = s
        THEN [rq[q] EXCEPT !.fresh = @ + n] ELSE rq[q]]

\* the requests rq after handler p has removed the first n entries of the
\* list of session s (all of them when it holds fewer)
AfterRemoval(rq, p, s, n) ==
    [q \in Procs |->
        IF q # p /\ rq[q].pc \in {"log", "ltrim"} /\ rq[q].sid = s
        THEN [rq[q] EXCEPT !.fresh = IF @ > n THEN @ - n ELSE 0] ELSE rq[q]]

\* no message is followed
NoProbe == Msg(<<>>, <<>>)

NoTasks == [run |-> 0, wait |-> 0, crit |-> 0]
NoPrev == [count |-> 0, text |-> <<>>]

\* a worker that can take the next request
Ready(p) == req[p].pc \in {"idle", "done", "error"}

\* requests go to the first ready worker
Takes(p) ==
    /\ opsLeft > 0
    /\ Ready(p)
    /\ p = "p2" => ~Ready("p1")

\* another request on session s is still being handled
Overlaps(p, s) == \E q \in Procs \ {p} : ~Ready(q) /\ req[q].sid = s

Flag_Unchecked(s) == FALSE

\* as Flag, but one flag for all sessions: true when any entry is true
Flag_AnySession(s) == \E t \in DOMAIN session_cleanup : session_cleanup[t]

\* session_cleanup.get(id).unwrap_or(&false)
Flag(s) == IF s \in DOMAIN session_cleanup THEN session_cleanup[s] ELSE FALSE

\* the entry of s is present with the value true
IsTrue(m, s) == s \in DOMAIN m /\ m[s]

Insert_False(m, s) == [x \in DOMAIN m \cup {s} |-> IF x = s THEN FALSE ELSE m[x]]

\* session_cleanup.insert(id, true)
Insert(m, s) == [x \in DOMAIN m \cup {s} |-> IF x = s THEN TRUE ELSE m[x]]

\* as Remove, but the entry is reset to false and stays
Remove_ResetsToFalse(m, s) == [x \in DOMAIN m |-> IF x = s THEN FALSE ELSE m[x]]

\* lock.remove(&session_id)
Remove(m, s) == [x \in DOMAIN m \ {s} |-> m[x]]

ActiveTasks(s) == tasks[s].run + tasks[s].wait + tasks[s].crit

Init ==
    /\ probe = NoProbe
    /\ window_size \in WindowSizes
    /\ list = [s \in Sessions |-> <<>>]
    /\ context = [s \in Sessions |-> None]
    /\ session_cleanup = << >>
    /\ lock = Free
    /\ req = [p \in Procs |-> NoReq]
    /\ tasks = [s \in Sessions |-> NoTasks]
    /\ started = [s \in Sessions |-> 0]
    /\ raised = [s \in Sessions |-> 0]
    /\ prevDl = [s \in Sessions |-> NoPrev]
    /\ seqSingle = [s \in Sessions |-> TRUE]
    /\ opsLeft = MaxOps

-----------------------------------------------------------------------------
(* get_memory: a pipeline of LRANGE id 0 window_size and GET id_context.   *)
(* The pipeline is not a transaction, so the two commands are two steps.   *)

ReadStop_OffByOne == window_size + 1

\* line 28: the stop index of the LRANGE, data.window_size as isize
ReadStop == window_size

get_memory_lrange(p, s) ==
    /\ Takes(p)
    /\ req' = [req EXCEPT ![p] =
                 [NoReq EXCEPT !.op = "get", !.sid = s, !.pc = "get",
                    !.messages = FilterMapDecode(LRange(list[s], 0, ReadStop))]]
    /\ opsLeft' = opsLeft - 1
    /\ UNCHANGED <<probe, window_size, list, context, session_cleanup, lock, tasks,
                   started, raised, prevDl, seqSingle>>

get_memory_get(p) ==
    /\ req[p].op = "get" /\ req[p].pc = "get"
    /\ req' = [req EXCEPT ![p].pc = "done", ![p].status = StatusOk,
                          ![p].ctx = context[req[p].sid]]
    /\ UNCHANGED <<probe, window_size, list, context, session_cleanup, lock, tasks,
                   started, raised, prevDl, seqSingle, opsLeft>>

-----------------------------------------------------------------------------
(* post_memory *)

Crosses_Geq(res) == res >= window_size

\* line 79: res > data.window_size
Crosses(res) == res > window_size

\* lines 68-98 up to the await of the mutex: encode, LPUSH, compare the
\* returned length with window_size
post_memory_lpush(p, s, batch) ==
    /\ Takes(p)
    /\ LET pushed == LPush(list[s], MapEncode(batch))
           res == Len(pushed)
       IN  /\ list' = [list EXCEPT ![s] = pushed]
           /\ req' = AfterPush(
                        [req EXCEPT ![p] =
                           IF Crosses(res)
                           THEN [NoReq EXCEPT !.op = "post", !.sid = s, !.pc = "lock",
                                              !.count = res]
                           ELSE [NoReq EXCEPT !.op = "post", !.sid = s, !.pc = "done",
                                              !.status = StatusOk]],
                        p, s, Len(batch))
    /\ opsLeft' = opsLeft - 1
    /\ seqSingle' = [seqSingle EXCEPT ![s] =
                       @ /\ Len(batch) = 1 /\ ~Overlaps(p, s)]
    /\ prevDl' = [prevDl EXCEPT ![s] = NoPrev]
    /\ UNCHANGED <<probe, window_size, context, session_cleanup, lock, tasks,
                   started, raised>>

\* line 81: state.session_cleanup.lock().await
post_memory_lock(p) ==
    /\ req[p].op = "post" /\ req[p].pc = "lock"
    /\ lock = Free
    /\ lock' = ReqHolder(p)
    /\ req' = [req EXCEPT ![p].pc = "crit"]
    /\ UNCHANGED <<probe, window_size, list, context, session_cleanup, tasks,
                   started, raised, prevDl, seqSingle, opsLeft>>

\* as post_memory_admit, but the handler awaits the JoinHandle of the task it
\* spawned before it answers
post_memory_admit_joined(p) ==
    /\ req[p].op = "post" /\ req[p].pc = "crit"
    /\ lock = ReqHolder(p)
    /\ ~Flag(req[p].sid)
    /\ session_cleanup' = Insert(session_cleanup, req[p].sid)
    /\ raised' = [raised EXCEPT ![req[p].sid] =
                    IF ~IsTrue(session_cleanup, req[p].sid)
                       /\ IsTrue(session_cleanup', req[p].sid)
                    THEN @ + 1 ELSE @]
    /\ tasks' = [tasks EXCEPT ![req[p].sid].run = @ + 1]
    /\ started' = [started EXCEPT ![req[p].sid] = @ + 1]
    /\ lock' = Free
    /\ req' = [req EXCEPT ![p].pc = "join"]
    /\ UNCHANGED <<probe, window_size, list, context, prevDl, seqSingle, opsLeft>>

\* lines 83-103 with the flag absent or false: insert true, spawn the task,
\* drop the guard at the end of the block, answer Ok
post_memory_admit(p) ==
    /\ req[p].op = "post" /\ req[p].pc = "crit"
    /\ lock = ReqHolder(p)
    /\ ~Flag(req[p].sid)
    /\ session_cleanup' = Insert(session_cleanup, req[p].sid)
    /\ raised' = [raised EXCEPT ![req[p].sid] =
                    IF ~IsTrue(session_cleanup, req[p].sid)
                       /\ IsTrue(session_cleanup', req[p].sid)
                    THEN @ + 1 ELSE @]
    /\ tasks' = [tasks EXCEPT ![req[p].sid].run = @ + 1]
    /\ started' = [started EXCEPT ![req[p].sid] = @ + 1]
    /\ lock' = Free
    /\ req' = [req EXCEPT ![p].pc = "done", ![p].count = 0, ![p].status = StatusOk]
    /\ UNCHANGED <<probe, window_size, list, context, prevDl, seqSingle, opsLeft>>

\* as post_memory_skip, but a second task is spawned although the flag is set
post_memory_skip_spawns(p) ==
    /\ req[p].op = "post" /\ req[p].pc = "crit"
    /\ lock = ReqHolder(p)
    /\ Flag(req[p].sid)
    /\ tasks' = [tasks EXCEPT ![req[p].sid].run = @ + 1]
    /\ started' = [started EXCEPT ![req[p].sid] = @ + 1]
    /\ lock' = Free
    /\ req' = [req EXCEPT ![p].pc = "done", ![p].count = 0, ![p].status = StatusOk]
    /\ UNCHANGED <<probe, window_size, list, context, session_cleanup,
                   raised, prevDl, seqSingle, opsLeft>>

\* as post_memory_skip, but the guard outlives the handler (it is leaked)
post_memory_skip_keeps_guard(p) ==
    /\ req[p].op = "post" /\ req[p].pc = "crit"
    /\ lock = ReqHolder(p)
    /\ Flag(req[p].sid)
    /\ req' = [req EXCEPT ![p].pc = "done", ![p].count = 0, ![p].status = StatusOk]
    /\ UNCHANGED <<probe, window_size, list, context, session_cleanup, lock, tasks,
                   started, raised, prevDl, seqSingle, opsLeft>>

\* lines 83-103 with the flag true: nothing but dropping the guard and Ok
post_memory_skip(p) ==
    /\ req[p].op = "post" /\ req[p].pc = "crit"
    /\ lock = ReqHolder(p)
    /\ Flag(req[p].sid)
    /\ lock' = Free
    /\ req' = [req EXCEPT ![p].pc = "done", ![p].count = 0, ![p].status = StatusOk]
    /\ UNCHANGED <<probe, window_size, list, context, session_cleanup, tasks,
                   started, raised, prevDl, seqSingle, opsLeft>>

-----------------------------------------------------------------------------
(* The spawned task, lines 89-96 *)

\* what a successful run of the external compaction routine leaves in the
\* store: the new context of the session (the routine itself is opaque)
CompactedContext(ctx, s) == [ctx EXCEPT ![s] = Summary]

\* lines 91-92, the routine returns Ok: it has written the new context
handle_compaction_ok(s) ==
    /\ tasks[s].run > 0
    /\ context' = CompactedContext(context, s)
    /\ tasks' = [tasks EXCEPT ![s].run = @ - 1, ![s].wait = @ + 1]
    /\ UNCHANGED <<probe, window_size, list, session_cleanup, lock, req,
                   started, raised, prevDl, seqSingle, opsLeft>>

\* as handle_compaction_err, but the task ends on the error (a `?` on the
\* result) and never reaches the removal
handle_compaction_err_exits(s) ==
    /\ tasks[s].run > 0
    /\ tasks' = [tasks EXCEPT ![s].run = @ - 1]
    /\ UNCHANGED <<probe, window_size, list, context, session_cleanup, lock, req,
                   started, raised, prevDl, seqSingle, opsLeft>>

\* lines 91-92, the routine returns Err: the result is dropped
\* (_compaction_result) and the task goes on
handle_compaction_err(s) ==
    /\ tasks[s].run > 0
    /\ tasks' = [tasks EXCEPT ![s].run = @ - 1, ![s].wait = @ + 1]
    /\ UNCHANGED <<probe, window_size, list, context, session_cleanup, lock, req,
                   started, raised, prevDl, seqSingle, opsLeft>>

\* line 94: session_cleanup.lock().await
compaction_lock(s) ==
    /\ tasks[s].wait > 0
    /\ lock = Free
    /\ lock' = TaskHolder(s)
    /\ tasks' = [tasks EXCEPT ![s].wait = @ - 1, ![s].crit = @ + 1]
    /\ UNCHANGED <<probe, window_size, list, context, session_cleanup, req,
                   started, raised, prevDl, seqSingle, opsLeft>>

\* as compaction_remove, but the task ends without removing the entry
compaction_remove_keeps_entry(s) ==
    /\ tasks[s].crit > 0
    /\ lock = TaskHolder(s)
    /\ lock' = Free
    /\ tasks' = [tasks EXCEPT ![s].crit = @ - 1]
    /\ UNCHANGED <<probe, window_size, list, context, session_cleanup, req,
                   started, raised, prevDl, seqSingle, opsLeft>>

\* line 95 and the end of the task: remove the entry, drop the guard
compaction_remove(s) ==
    /\ tasks[s].crit > 0
    /\ lock = TaskHolder(s)
    /\ session_cleanup' = Remove(session_cleanup, s)
    /\ lock' = Free
    /\ tasks' = [tasks EXCEPT ![s].crit = @ - 1]
    /\ UNCHANGED <<probe, window_size, list, context, req,
                   started, raised, prevDl, seqSingle, opsLeft>>

-----------------------------------------------------------------------------
(* delete_memory: a pipeline of DEL id and DEL id_context, two steps *)

delete_memory_del_list(p, s) ==
    /\ Takes(p)
    /\ list' = [list EXCEPT ![s] = <<>>]
    /\ req' = AfterRemoval(
                 [req EXCEPT ![p] =
                    [NoReq EXCEPT !.op = "delete", !.sid = s, !.pc = "del_ctx"]],
                 p, s, Len(list[s]))
    /\ opsLeft' = opsLeft - 1
    /\ seqSingle' = [seqSingle EXCEPT ![s] = FALSE]
    /\ prevDl' = [prevDl EXCEPT ![s] = NoPrev]
    /\ UNCHANGED <<probe, window_size, context, session_cleanup, lock, tasks,
                   started, raised>>

\* as delete_memory_del_context, but the context key is not deleted
delete_memory_keeps_context(p) ==
    /\ req[p].op = "delete" /\ req[p].pc = "del_ctx"
    /\ req' = [req EXCEPT ![p].pc = "done", ![p].status = StatusOk]
    /\ UNCHANGED <<probe, window_size, list, context, session_cleanup, lock, tasks,
                   started, raised, prevDl, seqSingle, opsLeft>>

delete_memory_del_context(p) ==
    /\ req[p].op = "delete" /\ req[p].pc = "del_ctx"
    /\ context' = [context EXCEPT ![req[p].sid] = None]
    /\ req' = [req EXCEPT ![p].pc = "done", ![p].status = StatusOk]
    /\ UNCHANGED <<probe, window_size, list, session_cleanup, lock, tasks,
                   started, raised, prevDl, seqSingle, opsLeft>>

-----------------------------------------------------------------------------
(* delete_last_messages.  An accepted call awaits three more store commands *)
(* one after the other: LRANGE id 0 -1 (line 165, for the log), LTRIM id     *)
(* count -1 (line 173) and LRANGE id 0 -1 again (line 179, for the log).     *)
(* Each is a step of its own, and each may fail, which ends the handler with *)
(* an internal server error at that point.                                   *)

\* line 154 and 161: Some(last_message) and content == req.message_text
Matches(l, count, text) ==
    LET last_messages == LRange(l, 0, count - 1)
    IN  /\ last_messages # <<>>
        /\ ContentOrEmpty(last_messages[Len(last_messages)]) = text

\* as delete_last_messages_check, but the LTRIM is issued whatever the verdict
delete_last_messages_trims_anyway(p, s, count, text) ==
    /\ Takes(p)
    /\ req' = [req EXCEPT ![p] =
                 IF Matches(list[s], count, text)
                 THEN [NoReq EXCEPT !.op = "delete_last", !.sid = s, !.pc = "log",
                                    !.count = count, !.text = text]
                 ELSE [NoReq EXCEPT !.op = "delete_last", !.sid = s, !.pc = "done",
                                    !.status = StatusMismatch]]
    /\ list' = [list EXCEPT ![s] =
                  IF Matches(list[s], count, text) THEN @ ELSE LTrim(@, count, -1)]
    /\ opsLeft' = opsLeft - 1
    /\ seqSingle' = [seqSingle EXCEPT ![s] = FALSE]
    /\ UNCHANGED <<probe, window_size, context, session_cleanup, lock, tasks,
                   started, raised, prevDl>>

\* lines 147-161 and 190-197: the verification read and its verdict
delete_last_messages_check(p, s, count, text) ==
    /\ Takes(p)
    /\ req' = [req EXCEPT ![p] =
                 IF Matches(list[s], count, text)
                 THEN [NoReq EXCEPT !.op = "delete_last", !.sid = s, !.pc = "log",
                                    !.count = count, !.text = text]
                 ELSE [NoReq EXCEPT !.op = "delete_last", !.sid = s, !.pc = "done",
                                    !.status = StatusMismatch]]
    /\ opsLeft' = opsLeft - 1
    /\ seqSingle' = [seqSingle EXCEPT ![s] = FALSE]
    /\ UNCHANGED <<probe, window_size, list, context, session_cleanup, lock, tasks,
                   started, raised, prevDl>>

\* lines 165-170: the LRANGE id 0 -1 whose result is logged
delete_last_messages_log(p) ==
    /\ req[p].op = "delete_last" /\ req[p].pc = "log"
    /\ req' = [req EXCEPT ![p].pc = "ltrim"]
    /\ UNCHANGED <<probe, window_size, list, context, session_cleanup, lock, tasks,
                   started, raised, prevDl, seqSingle, opsLeft>>

\* lines 173-176: LTRIM id count -1
delete_last_messages_ltrim(p) ==
    /\ req[p].op = "delete_last" /\ req[p].pc = "ltrim"
    /\ list' = [list EXCEPT ![req[p].sid] = LTrim(@, req[p].count, -1)]
    /\ req' = AfterRemoval(
                 [req EXCEPT ![p].pc = "shown", ![p].count = 0, ![p].text = <<>>,
                             ![p].fresh = 0],
                 p, req[p].sid, req[p].count)
    /\ prevDl' = [prevDl EXCEPT ![req[p].sid] =
                    [count |-> req[p].count, text |-> req[p].text]]
    /\ UNCHANGED <<probe, window_size, context, session_cleanup, lock, tasks,
                   started, raised, seqSingle, opsLeft>>

\* lines 179-189: the LRANGE id 0 -1 whose result is logged, then Ok
delete_last_messages_shown(p) ==
    /\ req[p].op = "delete_last" /\ req[p].pc = "shown"
    /\ req' = [req EXCEPT ![p].pc = "done", ![p].status = StatusOk]
    /\ UNCHANGED <<probe, window_size, list, context, session_cleanup, lock, tasks,
                   started, raised, prevDl, seqSingle, opsLeft>>

\* lines 168, 176 and 182: the command the handler awaits fails and the `?`
\* returns the internal server error; what the store has executed stays
delete_last_messages_err(p) ==
    /\ req[p].op = "delete_last" /\ req[p].pc \in {"log", "ltrim", "shown"}
    /\ req' = [req EXCEPT ![p].pc = "error", ![p].count = 0, ![p].text = <<>>,
                          ![p].fresh = 0, ![p].status = StatusInternalError]
    /\ UNCHANGED <<probe, window_size, list, context, session_cleanup, lock, tasks,
                   started, raised, prevDl, seqSingle, opsLeft>>

-----------------------------------------------------------------------------

Next ==
    \/ \E p \in Procs, s \in GetInputs : get_memory_lrange(p, s)
    \/ \E p \in Procs : get_memory_get(p)
    \/ \E p \in Procs, i \in PostInputs : post_memory_lpush(p, i[1], i[2])
    \/ \E p \in Procs : post_memory_lock(p)
    \/ \E p \in Procs : post_memory_admit(p)
    \/ \E p \in Procs : post_memory_skip(p)
    \/ \E s \in Sessions : handle_compaction_ok(s)
    \/ \E s \in Sessions : handle_compaction_err(s)
    \/ \E s \in Sessions : compaction_lock(s)
    \/ \E s \in Sessions : compaction_remove(s)
    \/ \E p \in Procs, s \in DeleteInputs : delete_memory_del_list(p, s)
    \/ \E p \in Procs : delete_memory_del_context(p)
    \/ \E p \in Procs, i \in DeleteLastInputs :
          delete_last_messages_check(p, i[1], i[2], i[3])
    \/ \E p \in Procs : delete_last_messages_log(p)
    \/ \E p \in Procs : delete_last_messages_ltrim(p)
    \/ \E p \in Procs : delete_last_messages_shown(p)
    \/ \E p \in Procs : delete_last_messages_err(p)

Spec == Init /\ [][Next]_vars

-----------------------------------------------------------------------------
(* Fairness.  A handler or task that can take its next step takes it: the   *)
(* runtime polls every ready task and the mutex is granted in FIFO order.   *)
(* Nothing is assumed about requests arriving, nor about the compaction     *)
(* routine ever returning.                                                  *)

MaxLiveOps == 3

LiveInit ==
    /\ probe = NoProbe
    /\ window_size = 1
    /\ list = [s \in Sessions |-> <<>>]
    /\ context = [s \in Sessions |-> None]
    /\ session_cleanup = << >>
    /\ lock = Free
    /\ req = [p \in Procs |-> NoReq]
    /\ tasks = [s \in Sessions |-> NoTasks]
    /\ started = [s \in Sessions |-> 0]
    /\ raised = [s \in Sessions |-> 0]
    /\ prevDl = [s \in Sessions |-> NoPrev]
    /\ seqSingle = [s \in Sessions |-> TRUE]
    /\ opsLeft = MaxLiveOps

Fairness ==
    /\ \A p \in Procs :
          /\ WF_vars(get_memory_get(p))
          /\ WF_vars(post_memory_lock(p))
          /\ WF_vars(post_memory_admit(p))
          /\ WF_vars(post_memory_skip(p))
          /\ WF_vars(delete_memory_del_context(p))
          /\ WF_vars(delete_last_messages_log(p))
          /\ WF_vars(delete_last_messages_ltrim(p))
          /\ WF_vars(delete_last_messages_shown(p))
    /\ \A s \in Sessions :
          /\ WF_vars(compaction_lock(s))
          /\ WF_vars(compaction_remove(s))

FairSpec == LiveInit /\ [][Next]_vars /\ Fairness

-----------------------------------------------------------------------------
(* The codec on its own: one message, of any role without the delimiter and *)
(* any content, is appended and read back.                                  *)

MaxStrLen == 2
MaxCodecOps == 2

CodecChars == {"u", ":", " "}
Strs == UNION {[1..k -> CodecChars] : k \in 0..MaxStrLen}

\* the Message invariant of the data model: no delimiter in the role
CodecMessages == {Msg(r, c) : r \in {x \in Strs : ~HasDelim(x)}, c \in Strs}

CodecInit ==
    /\ probe \in CodecMessages
    /\ window_size = 3
    /\ list = [s \in Sessions |-> <<>>]
    /\ context = [s \in Sessions |-> None]
    /\ session_cleanup = << >>
    /\ lock = Free
    /\ req = [p \in Procs |-> NoReq]
    /\ tasks = [s \in Sessions |-> NoTasks]
    /\ started = [s \in Sessions |-> 0]
    /\ raised = [s \in Sessions |-> 0]
    /\ prevDl = [s \in Sessions |-> NoPrev]
    /\ seqSingle = [s \in Sessions |-> TRUE]
    /\ opsLeft = MaxCodecOps

CodecNext ==
    \/ \E p \in Procs : post_memory_lpush(p, "A", <<probe>>)
    \/ \E p \in Procs : get_memory_lrange(p, "A")
    \/ \E p \in Procs : get_memory_get(p)

CodecSpec == CodecInit /\ [][CodecNext]_vars

-----------------------------------------------------------------------------
(* A store that already holds lines written by something else than         *)
(* post_memory: lines without the delimiter next to lines with it.          *)

MaxLegacyOps == 2

\* two lines without ": " (no colon at all, a colon without the space) and
\* two lines post_memory would write
LegacyLines ==
    {<<"x">>, <<"u", ":", "x">>,
     Encode(Msg(Role, <<"x">>)), Encode(Msg(Role, <<"y">>))}

LegacyLists == UNION {[1..k -> LegacyLines] : k \in 1..3}

LegacyInit ==
    /\ probe = NoProbe
    /\ window_size = 1
    /\ list \in {[s \in Sessions |-> IF s = "A" THEN l ELSE <<>>] : l \in LegacyLists}
    /\ context = [s \in Sessions |-> None]
    /\ session_cleanup = << >>
    /\ lock = Free
    /\ req = [p \in Procs |-> NoReq]
    /\ tasks = [s \in Sessions |-> NoTasks]
    /\ started = [s \in Sessions |-> 0]
    /\ raised = [s \in Sessions |-> 0]
    /\ prevDl = [s \in Sessions |-> NoPrev]
    /\ seqSingle = [s \in Sessions |-> TRUE]
    /\ opsLeft = MaxLegacyOps

LegacySpec == LegacyInit /\ [][Next]_vars

-----------------------------------------------------------------------------
(* Properties *)

\* l without its first n entries
Drop(l, n) == [i \in 1..(IF Len(l) > n THEN Len(l) - n ELSE 0) |-> l[i + n]]

\* the first n entries of l, or all of l when it has fewer
Take(l, n) == [i \in 1..(IF Len(l) > n THEN n ELSE Len(l)) |-> l[i]]

\* the content of the newest entry of l equals text
NewestMatches(l, text) == l # <<>> /\ ContentOrEmpty(l[1]) = text

\* an Append on session s has pushed and has not been answered yet
InFlight(s) ==
    \E p \in Procs :
        req[p].op = "post" /\ req[p].sid = s /\ req[p].pc \in {"lock", "crit"}

\* C1: at any time at most one compaction task of a session is active, that
\* is spawned and not yet through the removal of its Registry entry, however
\* many Appends crossed the threshold concurrently.
C1_AtMostOneCompaction == \A s \in Sessions : ActiveTasks(s) <= 1

\* C1 witness: two Appends on one session are past the threshold at the same
\* time, one inside the critical section and one waiting for the mutex, while
\* a compaction task of that session is active.
C1_Witness ==
    \E s \in Sessions :
        /\ ActiveTasks(s) = 1
        /\ req["p1"].op = "post" /\ req["p1"].sid = s
        /\ req["p2"].op = "post" /\ req["p2"].sid = s
        /\ {req["p1"].pc, req["p2"].pc} = {"lock", "crit"}

\* C2 (as claimed): DeleteLast accepts exactly when the list is not empty and
\* the content of its newest entry (index 0) equals the expected text, and
\* the trim of an accepted call leaves the list without its first count
\* entries.
C2_ComparesNewest ==
    [][\A p \in Procs :
          /\ \A i \in DeleteLastInputs :
                delete_last_messages_check(p, i[1], i[2], i[3])
                  => ((req'[p].pc = "log") <=> NewestMatches(list[i[1]], i[3]))
          /\ delete_last_messages_ltrim(p)
                  => list'[req[p].sid] = Drop(list[req[p].sid], req[p].count)
      ]_vars

\* C3 (as claimed): when the DeleteLast that last changed the list is repeated
\* with the same count and text and nothing happened on the session in
\* between, the repeated call is rejected and the list stays as it is, unless
\* the content of the entry that is now newest equals the text.
C3_RepeatRejected ==
    [][\A p \in Procs : \A i \in DeleteLastInputs :
          (/\ delete_last_messages_check(p, i[1], i[2], i[3])
           /\ ~Overlaps(p, i[1])
           /\ prevDl[i[1]] = [count |-> i[2], text |-> i[3]]
           /\ ~NewestMatches(list[i[1]], i[3]))
             => (req'[p].pc = "done" /\ list' = list)
      ]_vars

\* C4: a rejected DeleteLast answers with the text-mismatch failure and leaves
\* the message lists, the contexts and the Registry as they were.
C4_RejectChangesNothing ==
    [][\A p \in Procs : \A i \in DeleteLastInputs :
          (/\ opsLeft' # opsLeft
           /\ req'[p].op = "delete_last" /\ req'[p].pc = "done"
           /\ delete_last_messages_check(p, i[1], i[2], i[3]))
             => (/\ req'[p].status = StatusMismatch
                 /\ UNCHANGED <<list, context, session_cleanup, tasks>>)
      ]_vars

\* C4 witness: a DeleteLast on a non-empty list has been rejected.
C4_Witness ==
    \E p \in Procs :
        /\ req[p].op = "delete_last" /\ req[p].pc = "done"
        /\ req[p].status = StatusMismatch
        /\ list[req[p].sid] # <<>>

\* C5: for every session the number of compaction tasks started so far equals
\* the number of absent/false -> true transitions of its Registry flag.
C5_StartedEqualsRaised == \A s \in Sessions : started[s] = raised[s]

\* C5 witness: a session has been admitted twice, the second time after the
\* first task removed the entry.
C5_Witness == \E s \in Sessions : started[s] = 2 /\ raised[s] = 2

\* C6: an Append that is past its push (waiting for the mutex or inside the
\* critical section) returns its ack, also in the behaviours in which the
\* compaction routine never returns.
C6_AppendReturns ==
    \A p \in Procs :
        (req[p].op = "post" /\ req[p].pc \in {"lock", "crit"})
            ~> (req[p].op = "post" /\ req[p].pc = "done")

\* C6 witness: an Append has returned Ok while the compaction routine of its
\* session is still running.
C6_Witness ==
    \E p \in Procs :
        /\ req[p].op = "post" /\ req[p].pc = "done" /\ req[p].status = StatusOk
        /\ tasks[req[p].sid].run = 1

\* C7: once the compaction routine of a flagged session is not running any
\* more (it returned Ok or Err), the session's Registry entry is eventually
\* removed.
C7_EntryReleased ==
    \A s \in Sessions :
        (s \in DOMAIN session_cleanup /\ tasks[s].run = 0)
            ~> (s \notin DOMAIN session_cleanup)

\* C7 witness: the routine has returned and its task waits for the mutex,
\* which an Append holds.
C7_Witness ==
    \E s \in Sessions, p \in Procs :
        /\ tasks[s].wait = 1
        /\ s \in DOMAIN session_cleanup
        /\ lock = ReqHolder(p)

\* C8: an Append goes for admission only with a pushed length above
\* window_size; and in a fresh session that saw only sequential one-message
\* Appends no task is started while the list has at most window_size entries,
\* and exactly one once the Append that made it window_size + 1 has returned
\* (window_size = 3: none by the first three Appends, one by the fourth).
C8_AdmitsOnlyAboveWindow ==
    /\ \A p \in Procs :
          (req[p].op = "post" /\ req[p].pc \in {"lock", "crit"})
             => req[p].count > window_size
    /\ \A s \in Sessions :
          seqSingle[s] =>
             /\ Len(list[s]) <= window_size => started[s] = 0
             /\ Len(list[s]) = window_size + 1
                   => started[s] = (IF InFlight(s) THEN 0 ELSE 1)

\* C8 witness: window_size = 3 and the fourth sequential one-message Append to
\* a fresh session has returned, with one task started.
C8_Witness ==
    \E s \in Sessions :
        /\ window_size = 3 /\ seqSingle[s]
        /\ Len(list[s]) = 4 /\ ~InFlight(s)
        /\ started[s] = 1

\* C9: a Read returns at most window_size + 1 messages, and they are the
\* decodable ones among the entries 0..window_size of the list, in order.
C9_ReadWindow ==
    [][\A p \in Procs : \A s \in GetInputs :
          (opsLeft' # opsLeft /\ req'[p].op = "get" /\ get_memory_lrange(p, s))
             => (/\ Len(req'[p].messages) <= window_size + 1
                 /\ MapEncode(req'[p].messages)
                       = SelectSeq(Take(list[s], window_size + 1), HasDelim))
      ]_vars

\* C9 witness: a Read returned window_size + 1 messages of a list that holds
\* more.
C9_Witness ==
    \E p \in Procs :
        /\ req[p].op = "get"
        /\ Len(req[p].messages) = window_size + 1
        /\ Len(list[req[p].sid]) > window_size + 1
        /\ MapEncode(req[p].messages) = Take(list[req[p].sid], window_size + 1)

\* C10: Delete empties the message list and removes the context of its
\* session and answers Ok; on a key that is already absent its command
\* changes nothing, so a second Delete leaves what the first left; the
\* Registry and the tasks are not touched.
C10_DeleteRemovesBoth ==
    [][\A p \in Procs :
          /\ \A s \in DeleteInputs :
                (opsLeft' # opsLeft /\ req'[p].op = "delete"
                    /\ delete_memory_del_list(p, s))
                  => (/\ list'[s] = <<>>
                      /\ list[s] = <<>> => list' = list
                      /\ \A o \in Sessions \ {s} : list'[o] = list[o]
                      /\ UNCHANGED <<context, session_cleanup, tasks>>)
          /\ (req[p].pc = "del_ctx" /\ delete_memory_del_context(p))
                  => (/\ context'[req[p].sid] = None
                      /\ context[req[p].sid] = None => context' = context
                      /\ \A o \in Sessions \ {req[p].sid} : context'[o] = context[o]
                      /\ req'[p].status = StatusOk
                      /\ UNCHANGED <<list, session_cleanup, tasks>>)
      ]_vars

\* C10 witness: a Delete has returned on a session that had grown past the
\* window and had a context; its list and its context are gone.
C10_Witness ==
    \E p \in Procs :
        /\ req[p].op = "delete" /\ req[p].pc = "done"
        /\ started[req[p].sid] >= 1
        /\ list[req[p].sid] = <<>>
        /\ context[req[p].sid] = None

\* C11: a message whose role holds no delimiter comes back from the store
\* with the same role and the same content: a Read of a list that holds only
\* encodings of the message returns the message itself, once per line read.
C11_RoundTrip ==
    [][\A p \in Procs :
          (opsLeft' # opsLeft /\ req'[p].op = "get" /\ Takes(p))
             => req'[p].messages
                  = [i \in 1..Len(Take(list["A"], window_size + 1)) |-> probe]
      ]_vars

\* C11 witness: a Read returned a message whose role ends in ":" and whose
\* content holds the delimiter.
C11_Witness ==
    \E p \in Procs :
        /\ req[p].op = "get" /\ req[p].messages = <<probe>>
        /\ probe.role # <<>> /\ probe.role[Len(probe.role)] = ":"
        /\ HasDelim(probe.content)

\* C12: a Read does not fail on lines that hold no delimiter: it goes on to
\* its second command and answers Ok, and the messages it returns are the
\* lines of the window that hold the delimiter, one message per such line, in
\* the order of the list; every line without the delimiter is left out.
C12_ReadSkipsUndecodable ==
    [][\A p \in Procs : \A s \in GetInputs :
          /\ (opsLeft' # opsLeft /\ req'[p].op = "get" /\ get_memory_lrange(p, s))
               => LET w == Take(list[s], window_size + 1)
                      kept == {i \in 1..Len(w) : HasDelim(w[i])}
                      ms == req'[p].messages
                  IN  /\ req'[p].pc = "get"
                      /\ Len(ms) = Cardinality(kept)
                      /\ \A i \in kept :
                            Encode(ms[Cardinality({j \in kept : j <= i})]) = w[i]
          /\ (req[p].op = "get" /\ req[p].pc = "get" /\ req'[p] # req[p])
               => /\ req'[p].pc = "done" /\ req'[p].status = StatusOk
                  /\ req'[p].messages = req[p].messages
      ]_vars

\* C12 witness: the only request so far, a Read, answered Ok with at least one
\* message and with fewer messages than the window holds lines.
C12_Witness ==
    \E p \in Procs :
        /\ opsLeft = MaxLegacyOps - 1
        /\ req[p].op = "get" /\ req[p].pc = "done" /\ req[p].status = StatusOk
        /\ Len(req[p].messages) >= 1
        /\ Len(req[p].messages) < Len(Take(list[req[p].sid], window_size + 1))

\* C13: the push of an Append is one step that puts the whole batch at the
\* front of the list: the batch is the first Len(batch) entries, a later
\* message of the batch at a lower index than an earlier one, and behind the
\* block the list is what it was before the step, so no other Append's
\* message is inside the block and the older entries keep their order.
C13_BatchIsOneBlock ==
    [][\A p \in Procs : \A in \in PostInputs :
          (opsLeft' # opsLeft /\ req'[p].op = "post" /\ req'[p].sid = in[1]
             /\ post_memory_lpush(p, in[1], in[2]))
             => LET n == Len(in[2])
                IN  /\ Len(list'[in[1]]) = Len(list[in[1]]) + n
                    /\ \A i \in 1..n : list'[in[1]][i] = Encode(in[2][n + 1 - i])
                    /\ Drop(list'[in[1]], n) = list[in[1]]
                    /\ \A t \in Sessions \ {in[1]} : list'[t] = list[t]
      ]_vars

\* C13 witness: two Appends on session A are in flight at once and the list
\* holds the one-message batch of the second in front of the two-message
\* batch of the first, the second message of that batch before its first.
C13_Witness ==
    /\ \A p \in Procs :
          req[p].op = "post" /\ req[p].sid = "A" /\ req[p].pc \in {"lock", "crit"}
    /\ list["A"] = <<Encode(Msg(Role, <<"z">>)),
                     Encode(PairBatch[2]), Encode(PairBatch[1])>>

\* C14: whoever holds the Registry lock is inside a section without a store
\* command and without the compaction routine: a handler that holds it is an
\* Append between its lock() and the end of its check-and-set block, a task
\* that holds it has its routine behind it and is before its removal; and
\* the holder can always take the step that releases the lock, so nobody
\* waits for the lock for ever.
C14_LockOnlyInShortSections ==
    /\ lock = Free \/ (\E p \in Procs : lock = ReqHolder(p))
                   \/ (\E s \in Sessions : lock = TaskHolder(s))
    /\ \A p \in Procs :
          /\ lock = ReqHolder(p)
               => /\ req[p].op = "post" /\ req[p].pc = "crit"
                  /\ ENABLED (post_memory_admit(p) \/ post_memory_skip(p))
          /\ (req[p].op = "post" /\ req[p].pc = "crit") => lock = ReqHolder(p)
    /\ \A s \in Sessions :
          /\ lock = TaskHolder(s)
               => /\ tasks[s].crit = 1 /\ tasks[s].run = 0
                  /\ ENABLED compaction_remove(s)
          /\ tasks[s].crit > 0 => lock = TaskHolder(s)

\* C14 witness: the task of session A holds the lock while an Append waits
\* for it and the other handler is in the middle of a request.
C14_Witness ==
    /\ lock = TaskHolder("A")
    /\ req["p1"].op = "post" /\ req["p1"].pc = "lock"
    /\ ~Ready("p2")

\* C15: every entry of the Registry is true, and the entry of a session is
\* present exactly while a task of the session is admitted and has not done
\* its removal; an entry appears only in the admitting step of an Append, as
\* true, disappears only in the removal step of the task, and is never
\* overwritten in between.
C15_EntriesAreTrue ==
    /\ [](\A s \in Sessions :
             /\ s \in DOMAIN session_cleanup => session_cleanup[s] = TRUE
             /\ s \in DOMAIN session_cleanup <=> ActiveTasks(s) >= 1)
    /\ [][\A s \in Sessions :
             /\ (s \notin DOMAIN session_cleanup /\ s \in DOMAIN session_cleanup')
                  => /\ session_cleanup'[s] = TRUE
                     /\ started'[s] = started[s] + 1
                     /\ \E p \in Procs :
                           /\ req[p].op = "post" /\ req[p].sid = s
                           /\ req[p].pc = "crit" /\ req'[p].pc = "done"
             /\ (s \in DOMAIN session_cleanup /\ s \notin DOMAIN session_cleanup')
                  => tasks[s].crit = 1 /\ tasks'[s].crit = 0
             /\ (s \in DOMAIN session_cleanup /\ s \in DOMAIN session_cleanup')
                  => session_cleanup'[s] = session_cleanup[s]
       ]_vars

\* C15 witness: the task of session B has removed its entry, the task of
\* session A is about to remove the entry of A, which is still there.
C15_Witness ==
    /\ DOMAIN session_cleanup = {"A"}
    /\ tasks["A"].crit = 1
    /\ started["B"] = 1 /\ ActiveTasks("B") = 0

\* C16: an Append whose push took the list past window_size (count is the
\* length its push returned) and which finds the flag of its session true has
\* pushed its messages, and in the step in
\* which it leaves its critical section it starts no task, leaves the
\* Registry and the store as they are, and answers Ok.
C16_SkipWhenFlagSet ==
    [][\A p \in Procs :
          (req[p].pc = "crit" /\ req'[p] # req[p] /\ Flag(req[p].sid))
             => /\ req[p].op = "post" /\ req[p].count > window_size
                /\ req'[p].pc = "done" /\ req'[p].status = StatusOk
                /\ tasks' = tasks /\ started' = started
                /\ session_cleanup' = session_cleanup
                /\ list' = list /\ context' = context
      ]_vars

\* C16 witness: an Append on session A was answered Ok while the task another
\* Append had started is still running, and its message is at the head of
\* the list; only one task was ever started.
C16_Witness ==
    /\ req["p1"].op = "post" /\ req["p1"].sid = "A" /\ req["p1"].status = StatusOk
    /\ req["p2"].op = "post" /\ req["p2"].sid = "A" /\ req["p2"].status = StatusOk
    /\ tasks["A"].run = 1 /\ started["A"] = 1
    /\ opsLeft = MaxOps - 2
    /\ Len(list["A"]) > window_size + 1

\* C17: once a task of a session has been started and no task of the session
\* is active any more (whatever the routine returned), an Append of the
\* session that got a length above window_size from its push and reaches its
\* check admits: it sets the flag and starts one new task.  And a task starts
\* in no other way: the number of running tasks of a session grows only in
\* the admitting step of such an Append, never by a retry of a failed run.
C17_ReadmitsAfterRemoval ==
    [][/\ \A p \in Procs :
            (req[p].pc = "crit" /\ req'[p] # req[p]
               /\ started[req[p].sid] >= 1 /\ ActiveTasks(req[p].sid) = 0)
               => /\ req[p].count > window_size
                  /\ started'[req[p].sid] = started[req[p].sid] + 1
                  /\ tasks'[req[p].sid].run = 1
                  /\ IsTrue(session_cleanup', req[p].sid)
       /\ \A s \in Sessions :
            (started'[s] # started[s] \/ tasks'[s].run > tasks[s].run)
               => /\ started'[s] = started[s] + 1
                  /\ tasks'[s].run = tasks[s].run + 1
                  /\ \E p \in Procs :
                        /\ req[p].op = "post" /\ req[p].sid = s
                        /\ req[p].pc = "crit" /\ req[p].count > window_size
                        /\ req'[p].pc = "done"
      ]_vars

\* C17 witness: the first compaction of session A failed (the context is
\* still absent) and its task is gone; a later Append has started the second
\* task, which is running.
C17_Witness ==
    /\ started["A"] = 2 /\ ActiveTasks("A") = 1 /\ tasks["A"].run = 1
    /\ context["A"] = None
    /\ IsTrue(session_cleanup, "A")

\* C18 as stated: the LTRIM of a DeleteLast removes none of the entries that
\* were pushed on its session since its verification read (they are the
\* first fresh entries of the list).
C18_TrimRemovesOnlySeen ==
    [][\A p \in Procs :
          (req[p].pc = "ltrim" /\ req'[p].pc = "shown")
             => LET removed == Len(list[req[p].sid]) - Len(list'[req[p].sid])
                IN  req[p].fresh = 0 \/ removed = 0
      ]_vars

\* C18 amended: the LTRIM of a DeleteLast removes the first count entries of
\* the list as it is at the LTRIM, whatever was pushed since the verification
\* read: the entries pushed since the read are at the head of the list (there
\* are at most as many as the list is long) and are the first to go, so the
\* entries removed were all in the list at the read only when no Append
\* pushed in between.
\* The Ok follows the LTRIM in a later step that changes no
\* list.
C18_TrimRemovesHeadAtTrim ==
    [][\A p \in Procs :
          /\ (req[p].pc = "ltrim" /\ req'[p].pc = "shown")
               => /\ req[p].op = "delete_last"
                  /\ req[p].fresh <= Len(list[req[p].sid])
                  /\ list'[req[p].sid] = Drop(list[req[p].sid], req[p].count)
          /\ (req[p].pc = "shown" /\ req'[p].pc = "done")
               => req'[p].status = StatusOk /\ list' = list
      ]_vars

\* C18 witness: a DeleteLast has passed its verification and not trimmed yet,
\* and an Append on the same session has pushed in between.
C18_Witness ==
    \E p \in Procs : \E q \in Procs \ {p} :
        /\ req[p].op = "delete_last" /\ req[p].pc = "ltrim" /\ req[p].fresh >= 1
        /\ req[q].op = "post" /\ req[q].sid = req[p].sid

\* C19: once the Delete of handler p1 on a session has returned, has left
\* list and context of the session absent, and no request is issued (while
\* p1 is idle the other handler starts nothing, so no Append comes after the
\* Delete), list and context stay absent at every step, also a step of a
\* compaction task that was in flight at the Delete; and no step of a Delete
\* changes the Registry or the tasks, or waits for a task.
C19_DeletedStaysAbsent ==
    [][/\ \A s \in DeleteInputs :
            (/\ req["p1"].op = "delete" /\ req["p1"].sid = s
             /\ req["p1"].pc = "done"
             /\ list[s] = <<>> /\ context[s] = None
             /\ opsLeft' = opsLeft)
               => list'[s] = <<>> /\ context'[s] = None
       /\ \A p \in Procs :
            (req'[p].op = "delete" /\ req'[p] # req[p])
               => /\ session_cleanup' = session_cleanup /\ tasks' = tasks
                  /\ lock' = lock
      ]_vars

\* C20: admission looks at the entry of the Append's own session only: an
\* Append past the threshold that finds no entry of its session admits and
\* starts a task of its session, whatever entries of other sessions are
\* there, and leaves those as they are; and the removal step of a task
\* removes the entry of its own session and no other.
C20_AdmissionPerSession ==
    [][/\ \A p \in Procs :
            (req[p].pc = "crit" /\ req'[p] # req[p]
               /\ req[p].sid \notin DOMAIN session_cleanup)
               => /\ started'[req[p].sid] = started[req[p].sid] + 1
                  /\ tasks'[req[p].sid].run = tasks[req[p].sid].run + 1
                  /\ DOMAIN session_cleanup' = DOMAIN session_cleanup \cup {req[p].sid}
                  /\ \A t \in DOMAIN session_cleanup :
                        session_cleanup'[t] = session_cleanup[t]
                  /\ \A t \in Sessions \ {req[p].sid} : tasks'[t] = tasks[t]
       /\ \A s \in Sessions :
            tasks'[s].crit < tasks[s].crit
               => /\ DOMAIN session_cleanup' = DOMAIN session_cleanup \ {s}
                  /\ \A t \in DOMAIN session_cleanup' :
                        session_cleanup'[t] = session_cleanup[t]
                  /\ \A t \in Sessions \ {s} : tasks'[t] = tasks[t]
      ]_vars

\* C20 witness: the compactions of sessions A and B are running at the same
\* time, each started by an Append of its own session.
C20_Witness ==
    /\ tasks["A"].run = 1 /\ tasks["B"].run = 1
    /\ started["A"] = 1 /\ started["B"] = 1
    /\ DOMAIN session_cleanup = {"A", "B"}

====
